---- MODULE Spec2Model ----
(***************************************************************************)
(* Parallel Monte Carlo room assignment (src/source/main.cpp).             *)
(*                                                                         *)
(* main spawns threadCount workers (monteCarloThread); each worker runs    *)
(* iterationsPerThread iterations of: generate a random assignment,        *)
(* evaluateSolution, then under bestSolutionMutex compare the fitness with *)
(* globalBestFitness and, when strictly smaller, overwrite                 *)
(* globalBestFitness and globalBestAssignment.  main joins all workers and *)
(* prints the stored assignment and fitness.                               *)
(*                                                                         *)
(* Students, rooms and threads are numbered from 0 in the program; a       *)
(* sequence position in the model is the program's index plus one.         *)
(***************************************************************************)
EXTENDS Integers, Sequences, FiniteSets

\* ---- bounds of the model (the program's configuration scaled down) ----
MaxThreads == 2
MaxRooms == 2
MaxCapacity == 1
MaxStudents == 2
MaxIter == 2
MaxInc == 2

\* ---- program constants ----
INT_MAX == 2147483647
OverflowPenalty == 10
IncompatibilityPenalty == 5
IncompatibilityStride == 3

VARIABLES
    threadCount,            \* main: int threadCount (argv[1] or the default)
    rooms,                  \* main: std::vector<Room>, as the sequence of capacities
    numStudents,            \* main: int numStudents
    incompatibilities,      \* main: std::vector<Incompatibility>, pairs <<student1, student2>>
    iterationsPerThread,    \* main: int iterationsPerThread
    mainPc,                 \* main's position
    t,                      \* main: the counter of the spawn loop, then of the join loop
    pc,                     \* per worker: its position in monteCarloThread
    rng,                    \* per worker: the candidates its seeded generator yields, in order
    i,                      \* per worker: the loop counter i
    currentAssignment,      \* per worker: the scratch buffer currentAssignment
    fitness,                \* per worker: the local fitness
    observed,               \* per worker: the register as it was when the worker took the lock
    bestSolutionMutex,      \* 0 when free, else the worker holding it
    globalBestFitness,
    globalBestAssignment,
    eAssignment,            \* evaluateSolution called on its own: the arguments ...
    eRooms,
    eIncompatibilities,
    ePenalty,               \* ... and the value returned
    ePc

cfgVars == <<threadCount, rooms, numStudents, incompatibilities, iterationsPerThread>>
mainVars == <<mainPc, t>>
workerVars == <<pc, rng, i, currentAssignment, fitness, observed>>
registerVars == <<bestSolutionMutex, globalBestFitness, globalBestAssignment>>
evalVars == <<eAssignment, eRooms, eIncompatibilities, ePenalty, ePc>>
vars == <<cfgVars, mainVars, workerVars, registerVars, evalVars>>

Workers == 1..MaxThreads

\* ---------------------------------------------------------------------
\* evaluateSolution
\* ---------------------------------------------------------------------

\* as roomUsage, but counting an entry outside the range in the nearest room
roomUsageClamped(assignment, rs, room) ==
    Cardinality({j \in 1..Len(assignment) :
                    \/ assignment[j] = room
                    \/ assignment[j] < 0 /\ room = 0
                    \/ assignment[j] >= Len(rs) /\ room = Len(rs) - 1})

\* roomUsage[room] after the first loop: the students whose entry is room,
\* entries outside [0, roomUsage.size()) being skipped
roomUsage(assignment, rs, room) ==
    Cardinality({j \in 1..Len(assignment) :
                    /\ assignment[j] >= 0
                    /\ assignment[j] < Len(rs)
                    /\ assignment[j] = room})

\* as capacityPenalty, but an overfull room costs a flat OverflowPenalty
RECURSIVE capacityPenaltyFlat(_, _, _)
capacityPenaltyFlat(assignment, rs, k) ==
    IF k >= Len(rs) THEN 0
    ELSE (IF roomUsage(assignment, rs, k) > rs[k + 1] THEN OverflowPenalty ELSE 0)
         + capacityPenaltyFlat(assignment, rs, k + 1)

\* as capacityPenalty, but comparing every room with the first room's capacity
RECURSIVE capacityPenaltyFirstCapacity(_, _, _)
capacityPenaltyFirstCapacity(assignment, rs, k) ==
    IF k >= Len(rs) THEN 0
    ELSE (IF roomUsage(assignment, rs, k) > rs[1]
             THEN (roomUsage(assignment, rs, k) - rs[1]) * OverflowPenalty
             ELSE 0)
         + capacityPenaltyFirstCapacity(assignment, rs, k + 1)

\* as capacityPenalty, but charging a room's whole usage once it is overfull
RECURSIVE capacityPenaltyUsage(_, _, _)
capacityPenaltyUsage(assignment, rs, k) ==
    IF k >= Len(rs) THEN 0
    ELSE (IF roomUsage(assignment, rs, k) > rs[k + 1]
             THEN roomUsage(assignment, rs, k) * OverflowPenalty
             ELSE 0)
         + capacityPenaltyUsage(assignment, rs, k + 1)

\* the second loop, over rooms k..rooms.size()-1
RECURSIVE capacityPenalty(_, _, _)
capacityPenalty(assignment, rs, k) ==
    IF k >= Len(rs) THEN 0
    ELSE (IF roomUsage(assignment, rs, k) > rs[k + 1]
             THEN (roomUsage(assignment, rs, k) - rs[k + 1]) * OverflowPenalty
             ELSE 0)
         + capacityPenalty(assignment, rs, k + 1)

\* as incompatibilityPenalty, but penalising the pairs that are apart
RECURSIVE incompatibilityPenaltyApart(_, _, _)
incompatibilityPenaltyApart(assignment, incs, k) ==
    IF k > Len(incs) THEN 0
    ELSE (IF assignment[incs[k][1] + 1] # assignment[incs[k][2] + 1]
             THEN IncompatibilityPenalty
             ELSE 0)
         + incompatibilityPenaltyApart(assignment, incs, k + 1)

\* the third loop, over the entries k.. of the incompatibility list
RECURSIVE incompatibilityPenalty(_, _, _)
incompatibilityPenalty(assignment, incs, k) ==
    IF k > Len(incs) THEN 0
    ELSE (IF assignment[incs[k][1] + 1] = assignment[incs[k][2] + 1]
             THEN IncompatibilityPenalty
             ELSE 0)
         + incompatibilityPenalty(assignment, incs, k + 1)

evaluateSolution(assignment, rs, incs) ==
    capacityPenalty(assignment, rs, 0) + incompatibilityPenalty(assignment, incs, 1)

\* ---------------------------------------------------------------------
\* main: configuration
\* ---------------------------------------------------------------------

\* std::vector<Room> rooms(numRooms, Room{capacity})
uniformRooms(numRooms, capacity) == [r \in 1..numRooms |-> capacity]

\* for (i = 0; i < numStudents - 1; i += 3) push_back({i, i+1})
RECURSIVE adjacentIncompatibilities(_, _)
adjacentIncompatibilities(n, k) ==
    IF k < n - 1
       THEN <<<<k, k + 1>>>> \o adjacentIncompatibilities(n, k + IncompatibilityStride)
       ELSE <<>>

\* as roomDist, with the upper end one too high
roomDistInclusive(rs) == 0..Len(rs)

\* the values roomDist(rng) yields: uniform over [0, rooms.size() - 1]
roomDist(rs) == 0..(Len(rs) - 1)

\* what one pass of the generation loop can leave in the scratch buffer
Candidates == [1..numStudents -> roomDist(rooms)]

Init ==
    /\ threadCount \in (-1)..MaxThreads
    /\ \E numRooms \in 1..MaxRooms, capacity \in 0..MaxCapacity :
          rooms = uniformRooms(numRooms, capacity)
    /\ numStudents \in 0..MaxStudents
    /\ incompatibilities = adjacentIncompatibilities(numStudents, 0)
    /\ iterationsPerThread \in 1..MaxIter
    /\ mainPc = "spawn"
    /\ t = 0
    /\ pc = [w \in Workers |-> "unspawned"]
    /\ rng = [w \in Workers |-> <<>>]
    /\ i = [w \in Workers |-> 0]
    /\ currentAssignment = [w \in Workers |-> <<>>]
    /\ fitness = [w \in Workers |-> 0]
    /\ observed = [w \in Workers |-> <<>>]
    /\ bestSolutionMutex = 0
    /\ globalBestFitness = INT_MAX
    /\ globalBestAssignment = <<>>
    /\ eAssignment = <<>>
    /\ eRooms = <<>>
    /\ eIncompatibilities = <<>>
    /\ ePenalty = 0
    /\ ePc = "off"

\* ---------------------------------------------------------------------
\* main: spawn, join, report
\* ---------------------------------------------------------------------

\* threads.emplace_back(monteCarloThread, ...) while t < threadCount
Spawn ==
    /\ mainPc = "spawn"
    /\ IF t < threadCount
          THEN /\ pc' = [pc EXCEPT ![t + 1] = "start"]
               /\ t' = t + 1
               /\ mainPc' = mainPc
          ELSE /\ pc' = pc
               /\ t' = 0
               /\ mainPc' = "join"
    /\ UNCHANGED <<cfgVars, rng, i, currentAssignment, fitness, observed,
                   registerVars, evalVars>>

\* the number of std::thread objects in `threads`
Spawned == IF threadCount > 0 THEN threadCount ELSE 0

\* as Join, but returning at once whether or not the worker has finished
JoinNoWait ==
    /\ mainPc = "join"
    /\ IF t < Spawned
          THEN /\ t' = t + 1
               /\ mainPc' = mainPc
          ELSE /\ t' = t
               /\ mainPc' = "report"
    /\ UNCHANGED <<cfgVars, workerVars, registerVars, evalVars>>

\* for (auto& t : threads) t.join(): blocks until that worker has returned
Join ==
    /\ mainPc = "join"
    /\ IF t < Spawned
          THEN /\ pc[t + 1] = "done"
               /\ t' = t + 1
               /\ mainPc' = mainPc
          ELSE /\ t' = t
               /\ mainPc' = "report"
    /\ UNCHANGED <<cfgVars, workerVars, registerVars, evalVars>>

\* the report loop reads globalBestAssignment[0 .. numStudents-1]; a read past
\* the end of the vector is undefined: the run may crash or print garbage
Report ==
    /\ mainPc = "report"
    /\ IF numStudents <= Len(globalBestAssignment)
          THEN mainPc' = "done"
          ELSE mainPc' \in {"done", "crashed"}
    /\ UNCHANGED <<cfgVars, t, workerVars, registerVars, evalVars>>

\* ---------------------------------------------------------------------
\* monteCarloThread
\* ---------------------------------------------------------------------

\* as isBetter, with the comparison reversed, with any difference accepted,
\* and with ties accepted
isBetterReversed(f, best) == f > best
isBetterDifferent(f, best) == f # best
isBetterOrEqual(f, best) == f <= best

\* the strict comparison that guards the update
isBetter(f, best) == f < best

\* as loopContinues, for a loop that stops one iteration early
loopStopsEarly(k, n) == k + 1 < n

\* the loop test i < iterations
loopContinues(k, n) == k < n

\* rng seeded from random_device, the scratch buffer allocated, first loop test;
\* streams: the sequences of candidates the seeded generator may go on to yield
WorkerStartFrom(w, streams) ==
    /\ pc[w] = "start"
    /\ \E stream \in streams : rng' = [rng EXCEPT ![w] = stream]
    /\ currentAssignment' = [currentAssignment EXCEPT ![w] = [j \in 1..numStudents |-> 0]]
    /\ i' = [i EXCEPT ![w] = 0]
    /\ pc' = [pc EXCEPT ![w] = IF loopContinues(0, iterationsPerThread)
                                  THEN "gen" ELSE "done"]
    /\ UNCHANGED <<cfgVars, mainVars, fitness, observed, registerVars, evalVars>>

\* any seed: every sequence of iterationsPerThread candidates
WorkerStart(w) == WorkerStartFrom(w, [1..iterationsPerThread -> Candidates])

\* as Generate, but with the register sharing the buffer of the worker whose
\* candidate it holds instead of holding a copy
GenerateAliased(w) ==
    /\ pc[w] = "gen"
    /\ currentAssignment' = [currentAssignment EXCEPT ![w] = rng[w][i[w] + 1]]
    /\ globalBestAssignment' = IF globalBestAssignment = currentAssignment[w]
                                  THEN rng[w][i[w] + 1]
                                  ELSE globalBestAssignment
    /\ pc' = [pc EXCEPT ![w] = "eval"]
    /\ UNCHANGED <<cfgVars, mainVars, rng, i, fitness, observed,
                   bestSolutionMutex, globalBestFitness, evalVars>>

\* for (j...) currentAssignment[j] = roomDist(rng)
Generate(w) ==
    /\ pc[w] = "gen"
    /\ currentAssignment' = [currentAssignment EXCEPT ![w] = rng[w][i[w] + 1]]
    /\ pc' = [pc EXCEPT ![w] = "eval"]
    /\ UNCHANGED <<cfgVars, mainVars, rng, i, fitness, observed, registerVars, evalVars>>

\* int fitness = evaluateSolution(currentAssignment, rooms, incompatibilities)
Evaluate(w) ==
    /\ pc[w] = "eval"
    /\ fitness' = [fitness EXCEPT
                     ![w] = evaluateSolution(currentAssignment[w], rooms, incompatibilities)]
    /\ pc' = [pc EXCEPT ![w] = "lock"]
    /\ UNCHANGED <<cfgVars, mainVars, rng, i, currentAssignment, observed,
                   registerVars, evalVars>>

\* as mutexFree, for a lock that never blocks
mutexNeverHeld == TRUE

\* std::mutex::lock can return only when no thread owns the mutex
mutexFree == bestSolutionMutex = 0

\* std::lock_guard<std::mutex> lock(bestSolutionMutex)
Lock(w) ==
    /\ pc[w] = "lock"
    /\ mutexFree
    /\ bestSolutionMutex' = w
    /\ observed' = [observed EXCEPT ![w] = <<globalBestFitness, globalBestAssignment>>]
    /\ pc' = [pc EXCEPT ![w] = "cmp"]
    /\ UNCHANGED <<cfgVars, mainVars, rng, i, currentAssignment, fitness,
                   globalBestFitness, globalBestAssignment, evalVars>>

\* as Compare, but with the lock's scope ending after the comparison
CompareThenRelease(w) ==
    /\ pc[w] = "cmp"
    /\ pc' = [pc EXCEPT ![w] = IF fitness[w] < globalBestFitness
                                  THEN "write1" ELSE "unlock"]
    /\ bestSolutionMutex' = 0
    /\ UNCHANGED <<cfgVars, mainVars, rng, i, currentAssignment, fitness, observed,
                   globalBestFitness, globalBestAssignment, evalVars>>

\* if (fitness < globalBestFitness)
Compare(w) ==
    /\ pc[w] = "cmp"
    /\ pc' = [pc EXCEPT ![w] = IF isBetter(fitness[w], globalBestFitness)
                                  THEN "write1" ELSE "unlock"]
    /\ UNCHANGED <<cfgVars, mainVars, rng, i, currentAssignment, fitness, observed,
                   registerVars, evalVars>>

\* as WriteFitness, but leaving the stored fitness as it was
WriteFitnessSkipped(w) ==
    /\ pc[w] = "write1"
    /\ pc' = [pc EXCEPT ![w] = "write2"]
    /\ UNCHANGED <<cfgVars, mainVars, rng, i, currentAssignment, fitness, observed,
                   registerVars, evalVars>>

\* globalBestFitness = fitness
WriteFitness(w) ==
    /\ pc[w] = "write1"
    /\ globalBestFitness' = fitness[w]
    /\ pc' = [pc EXCEPT ![w] = "write2"]
    /\ UNCHANGED <<cfgVars, mainVars, rng, i, currentAssignment, fitness, observed,
                   bestSolutionMutex, globalBestAssignment, evalVars>>

\* as WriteAssignment, but leaving the stored assignment as it was
WriteAssignmentSkipped(w) ==
    /\ pc[w] = "write2"
    /\ pc' = [pc EXCEPT ![w] = "unlock"]
    /\ UNCHANGED <<cfgVars, mainVars, rng, i, currentAssignment, fitness, observed,
                   registerVars, evalVars>>

\* globalBestAssignment = currentAssignment (a copy)
WriteAssignment(w) ==
    /\ pc[w] = "write2"
    /\ globalBestAssignment' = currentAssignment[w]
    /\ pc' = [pc EXCEPT ![w] = "unlock"]
    /\ UNCHANGED <<cfgVars, mainVars, rng, i, currentAssignment, fitness, observed,
                   bestSolutionMutex, globalBestFitness, evalVars>>

\* as Unlock, but ending the iteration with the mutex still locked
UnlockKeepsMutex(w) ==
    /\ pc[w] = "unlock"
    /\ i' = [i EXCEPT ![w] = i[w] + 1]
    /\ pc' = [pc EXCEPT ![w] = IF i[w] + 1 < iterationsPerThread THEN "gen" ELSE "done"]
    /\ observed' = [observed EXCEPT ![w] = <<>>]
    /\ UNCHANGED <<cfgVars, mainVars, rng, currentAssignment, fitness,
                   registerVars, evalVars>>

\* the lock_guard's destructor, then i++ and the loop test
Unlock(w) ==
    /\ pc[w] = "unlock"
    /\ bestSolutionMutex' = 0
    /\ i' = [i EXCEPT ![w] = i[w] + 1]
    /\ pc' = [pc EXCEPT ![w] = IF loopContinues(i[w] + 1, iterationsPerThread)
                                  THEN "gen" ELSE "done"]
    /\ observed' = [observed EXCEPT ![w] = <<>>]
    /\ UNCHANGED <<cfgVars, mainVars, rng, currentAssignment, fitness,
                   globalBestFitness, globalBestAssignment, evalVars>>

Worker(w) ==
    \/ WorkerStart(w)
    \/ Generate(w)
    \/ Evaluate(w)
    \/ Lock(w)
    \/ Compare(w)
    \/ WriteFitness(w)
    \/ WriteAssignment(w)
    \/ Unlock(w)

Next ==
    \/ Spawn
    \/ Join
    \/ Report
    \/ \E w \in Workers : Worker(w)

Spec == Init /\ [][Next]_vars

\* every thread that can take a step is scheduled eventually; a worker waiting
\* for the mutex takes it once it stays free
Fairness ==
    /\ WF_vars(Spawn)
    /\ WF_vars(Join)
    /\ WF_vars(Report)
    /\ \A w \in Workers : WF_vars(Worker(w))

SpecFair == Spec /\ Fairness

\* ---------------------------------------------------------------------
\* Properties of the run
\* ---------------------------------------------------------------------

\* the worker is inside the block guarded by the lock_guard
InCriticalSection(w) == pc[w] \in {"cmp", "write1", "write2", "unlock"}

\* main is past the join loop
AllJoined == mainPc \in {"report", "done", "crashed"}

\* the positions <<w, k>> of the candidates whose update attempt is over
AttemptsOver == {p \in Workers \X (1..MaxIter) : p[2] <= i[p[1]]}

\* the fitness values whose update attempt is over
FitnessesOver ==
    {evaluateSolution(rng[p[1]][p[2]], rooms, incompatibilities) : p \in AttemptsOver}

\* the fitness values computed by a worker whose update attempt is not over
FitnessesInFlight ==
    {fitness[w] : w \in {v \in Workers : pc[v] = "lock" \/ InCriticalSection(v)}}

\* every candidate of the run: what the generators seeded so far yield over the
\* iterations of their workers
AllCandidates ==
    {rng[p[1]][p[2]] :
        p \in {q \in (1..Spawned) \X (1..iterationsPerThread) : q[2] <= Len(rng[q[1]])}}

FitnessOf(a) == evaluateSolution(a, rooms, incompatibilities)

\* the candidates of the run that no candidate of the run beats
Minimisers == {a \in AllCandidates : \A b \in AllCandidates : FitnessOf(a) <= FitnessOf(b)}

C2_FinalIsGlobalMinimum ==
    (AllJoined /\ Spawned > 0)
        => /\ \A a \in AllCandidates : globalBestFitness <= FitnessOf(a)
           /\ globalBestAssignment \in AllCandidates
           /\ FitnessOf(globalBestAssignment) = globalBestFitness

\* two workers have finished, their candidates not all of one fitness, and the
\* least fitness was not the first one stored
C2_Witness ==
    /\ mainPc = "done"
    /\ threadCount = 2
    /\ \E a, b \in AllCandidates : FitnessOf(a) < FitnessOf(b)
    /\ FitnessOf(rng[1][1]) > globalBestFitness
    /\ FitnessOf(rng[2][1]) > globalBestFitness

\* C3: at every moment the stored fitness is at most every fitness whose update
\* attempt is over, and it is either the least of those (INT_MAX when there is
\* none) or a smaller fitness of an attempt still in flight.
C3_BestIsRunningMinimum ==
    /\ \A f \in FitnessesOver : globalBestFitness <= f
    /\ \/ globalBestFitness \in FitnessesOver
       \/ globalBestFitness = INT_MAX /\ FitnessesOver = {}
       \/ /\ globalBestFitness \in FitnessesInFlight
          /\ \A f \in FitnessesOver : globalBestFitness < f

\* a worker has computed a fitness below the stored one and waits for the lock
\* while attempts of both workers are already over
C3_Witness ==
    \E w \in Workers :
        /\ pc[w] = "lock"
        /\ fitness[w] < globalBestFitness
        /\ \A v \in Workers : i[v] >= 1

\* C4: at most one worker is inside the critical section and it owns the mutex;
\* from taking the lock until its own write the register is as the worker found
\* it, so a worker about to write still holds a fitness below the stored one.
C4_ExclusiveCompareAndWrite ==
    /\ \A w, v \in Workers : (InCriticalSection(w) /\ InCriticalSection(v)) => w = v
    /\ \A w \in Workers :
          /\ InCriticalSection(w) => bestSolutionMutex = w
          /\ pc[w] \in {"cmp", "write1"}
                => observed[w] = <<globalBestFitness, globalBestAssignment>>
          /\ pc[w] = "write1" => fitness[w] < globalBestFitness
          /\ pc[w] = "write2" => globalBestFitness = fitness[w]

\* one worker is about to overwrite the register while the other, holding a
\* better candidate, waits for the lock
C4_Witness ==
    \E w, v \in Workers :
        /\ pc[w] = "write1"
        /\ pc[v] = "lock"
        /\ fitness[v] < fitness[w]

\* C5: every step leaves the stored fitness unchanged or lowers it strictly, to
\* the fitness of the worker that is writing.
C5_FitnessNeverIncreases ==
    [][/\ globalBestFitness' <= globalBestFitness
       /\ globalBestFitness' # globalBestFitness
             => \E w \in Workers : pc[w] = "write1" /\ globalBestFitness' = fitness[w]]_vars

\* a worker has lowered a stored fitness that was already a candidate's
C5_Witness ==
    \E w \in Workers :
        /\ pc[w] = "unlock"
        /\ observed[w][1] # INT_MAX
        /\ globalBestFitness < observed[w][1]

\* C6: a worker at the end of an update attempt whose fitness was not below the
\* stored fitness it found, ties included, leaves the register exactly as it
\* found it.
C6_TieKeepsFirstFound ==
    \A w \in Workers :
        (pc[w] = "unlock" /\ fitness[w] >= observed[w][1])
            => <<globalBestFitness, globalBestAssignment>> = observed[w]

\* an attempt with an exact tie and an assignment other than the stored one
C6_Witness ==
    \E w \in Workers :
        /\ pc[w] = "unlock"
        /\ fitness[w] = observed[w][1]
        /\ currentAssignment[w] # observed[w][2]

\* C7: the final register is a function of the candidates alone: whatever the
\* interleaving, the final fitness is the least fitness of the candidates the
\* workers' generators yield, and when a single candidate has it, that candidate
\* is the final assignment.
C7_FinalValueIsInterleavingFree ==
    (AllJoined /\ Spawned > 0)
        => /\ \E a \in Minimisers : globalBestFitness = FitnessOf(a)
           /\ Cardinality(Minimisers) = 1 => globalBestAssignment \in Minimisers

\* two workers have finished, the single best candidate being the second
\* worker's last one
C7_Witness ==
    /\ mainPc = "done"
    /\ threadCount = 2
    /\ Cardinality(Minimisers) = 1
    /\ Cardinality(AllCandidates) > 2
    /\ rng[2][iterationsPerThread] \in Minimisers

\* C8: a run whose thread count is zero or negative never reaches the report:
\* it neither reads the stored assignment nor prints a result.
C8_InvalidConfigurationFailsFast ==
    threadCount <= 0 => mainPc \notin {"report", "done", "crashed"}

\* C11: a worker never makes more than iterationsPerThread update attempts, has
\* made exactly that many when it returns, and every spawned worker eventually
\* returns, after which main gets past the join loop.
C11_EveryWorkerRunsAllIterations ==
    /\ [](\A w \in Workers :
             /\ i[w] <= iterationsPerThread
             /\ InCriticalSection(w) => i[w] < iterationsPerThread
             /\ pc[w] = "done" => i[w] = iterationsPerThread)
    /\ <>(AllJoined /\ \A w \in 1..Spawned : pc[w] = "done")

\* two workers have returned after two update attempts each
C11_Witness ==
    /\ threadCount = 2
    /\ iterationsPerThread = 2
    /\ \A w \in Workers : pc[w] = "done" /\ i[w] = 2

\* C12: whenever main is past the join loop, at the report or after it, every
\* spawned worker has returned from all its iterations and the mutex is free;
\* and no step taken from then on changes the register.
C12_ReadOnlyAfterAllJoined ==
    [][AllJoined
          => /\ \A w \in 1..Spawned : pc[w] = "done" /\ i[w] = iterationsPerThread
             /\ \A w \in Workers : pc[w] \in {"done", "unspawned"}
             /\ bestSolutionMutex = 0
             /\ UNCHANGED <<globalBestFitness, globalBestAssignment>>]_vars

\* main stands at the report after two workers have written the register
C12_Witness ==
    /\ mainPc = "report"
    /\ threadCount = 2
    /\ globalBestFitness # INT_MAX
    /\ globalBestAssignment # rng[1][1]
    /\ globalBestAssignment # rng[2][1]

\* C15: with no students the only candidate is the empty assignment and it
\* scores 0; every worker computes fitness 0, and from the first write of the
\* register on, so whenever some update attempt is over, the stored fitness is 0
\* and the stored assignment is empty.
C15_NoStudentsConvergesToZero ==
    numStudents = 0
        => /\ Candidates = {<<>>}
           /\ evaluateSolution(<<>>, rooms, incompatibilities) = 0
           /\ \A w \in Workers : (pc[w] = "lock" \/ InCriticalSection(w)) => fitness[w] = 0
           /\ (\E w \in Workers : pc[w] \in {"write2", "unlock"} \/ i[w] >= 1)
                 => globalBestFitness = 0 /\ globalBestAssignment = <<>>

\* with no students, a worker in its second attempt meets the stored fitness 0
C15_Witness ==
    /\ numStudents = 0
    /\ threadCount = 2
    /\ globalBestFitness = 0
    /\ \E w \in Workers : pc[w] = "cmp" /\ i[w] = 1 /\ fitness[w] = 0

\* C18: the mutex is held only by a worker that is comparing, writing or about
\* to release it: a worker that is starting, generating, evaluating, waiting
\* for the lock or finished does not hold it, so every iteration ends with the
\* mutex released, whether or not the update was applied.
C18_LockHeldOnlyForCompareAndCopy ==
    /\ bestSolutionMutex \in {0} \cup Workers
    /\ \A w \in Workers :
          /\ bestSolutionMutex = w => pc[w] \in {"cmp", "write1", "write2", "unlock"}
          /\ pc[w] \in {"unspawned", "start", "gen", "eval", "lock", "done"}
                => bestSolutionMutex # w

\* a worker whose first update attempt was rejected evaluates its next
\* candidate while the other worker holds the mutex
C18_Witness ==
    \E w, v \in Workers :
        /\ pc[w] = "eval"
        /\ i[w] = 1
        /\ FitnessOf(rng[w][1]) >= globalBestFitness
        /\ rng[w][1] # globalBestAssignment
        /\ bestSolutionMutex = v
        /\ pc[v] = "write1"

\* C19: a step in which a worker generates its next candidate, overwriting its
\* scratch buffer, or evaluates it, leaves the stored fitness, the stored
\* assignment and the mutex as they were, and leaves every other worker's
\* buffer and fitness as they were.
C19_RegisterHoldsCopy ==
    [][\A w \in Workers :
          (pc[w] \in {"gen", "eval"} /\ pc'[w] # pc[w])
             => /\ UNCHANGED <<globalBestFitness, globalBestAssignment, bestSolutionMutex>>
                /\ \A v \in Workers \ {w} :
                      /\ currentAssignment'[v] = currentAssignment[v]
                      /\ fitness'[v] = fitness[v]]_vars

\* the only worker's first candidate was accepted and is still stored after the
\* worker has overwritten its buffer with a different second candidate
C19_Witness ==
    /\ threadCount = 1
    /\ pc[1] = "eval"
    /\ i[1] = 1
    /\ globalBestAssignment = rng[1][1]
    /\ currentAssignment[1] = rng[1][2]
    /\ currentAssignment[1] # globalBestAssignment

\* the register as constructed
RegisterUnwritten == globalBestFitness = INT_MAX /\ globalBestAssignment = <<>>

\* the register holds one room index per student
RegisterHoldsAssignment ==
    /\ Len(globalBestAssignment) = numStudents
    /\ \A j \in 1..Len(globalBestAssignment) :
          globalBestAssignment[j] >= 0 /\ globalBestAssignment[j] < Len(rooms)

\* C20, as stated: in every reachable state the register either is as
\* constructed (INT_MAX, empty) or holds numStudents room indices; and at the
\* report of a run with students, the stored assignment covers the indices
\* 0..numStudents-1 only if the run made an update attempt.
C20_TwoShapesInEveryState ==
    /\ RegisterUnwritten \/ RegisterHoldsAssignment
    /\ (mainPc = "report" /\ numStudents > 0 /\ numStudents <= Len(globalBestAssignment))
          => Spawned * iterationsPerThread >= 1

\* C20, amended: in every state in which no worker stands between its write of
\* the fitness and its write of the assignment, the register either is as
\* constructed, no update attempt being over, or holds a fitness other than
\* INT_MAX and numStudents room indices; between the two writes the fitness is
\* already a candidate's while the assignment is still the previous one (empty
\* during the first update).  At the report of a run with students the stored
\* assignment covers the indices 0..numStudents-1 exactly when the run made an
\* update attempt, and only the report of a run without one can crash.
C20_TwoShapesOutsideTheWrites ==
    /\ (\A w \in Workers : pc[w] # "write2")
          => \/ RegisterUnwritten /\ \A w \in Workers : i[w] = 0
             \/ globalBestFitness # INT_MAX /\ RegisterHoldsAssignment
    /\ (\E w \in Workers : pc[w] = "write2")
          => /\ globalBestFitness # INT_MAX
             /\ globalBestAssignment = <<>> \/ RegisterHoldsAssignment
    /\ (mainPc = "report" /\ numStudents > 0)
          => (numStudents <= Len(globalBestAssignment)
                 <=> Spawned * iterationsPerThread >= 1)
    /\ mainPc = "crashed" => (threadCount <= 0 /\ numStudents > 0)

\* main stands at the report of a run of two workers and two students, the
\* register holding a candidate
C20_Witness ==
    /\ mainPc = "report"
    /\ threadCount = 2
    /\ numStudents = 2
    /\ globalBestFitness # INT_MAX
    /\ RegisterHoldsAssignment

\* ---------------------------------------------------------------------
\* The run on one room of capacity 5, three students, students 0 and 1
\* incompatible
\* ---------------------------------------------------------------------

InitOneRoom ==
    /\ threadCount \in (-1)..MaxThreads
    /\ rooms = uniformRooms(1, 5)
    /\ numStudents = 3
    /\ incompatibilities = adjacentIncompatibilities(3, 0)
    /\ iterationsPerThread \in 1..MaxIter
    /\ mainPc = "spawn"
    /\ t = 0
    /\ pc = [w \in Workers |-> "unspawned"]
    /\ rng = [w \in Workers |-> <<>>]
    /\ i = [w \in Workers |-> 0]
    /\ currentAssignment = [w \in Workers |-> <<>>]
    /\ fitness = [w \in Workers |-> 0]
    /\ observed = [w \in Workers |-> <<>>]
    /\ bestSolutionMutex = 0
    /\ globalBestFitness = INT_MAX
    /\ globalBestAssignment = <<>>
    /\ eAssignment = <<>>
    /\ eRooms = <<>>
    /\ eIncompatibilities = <<>>
    /\ ePenalty = 0
    /\ ePc = "off"

SpecOneRoom == InitOneRoom /\ [][Next]_vars

\* C13: with one room of capacity 5, three students and the incompatible pair
\* (0,1), every candidate scores 5, every worker computes fitness 5, and once
\* main is past the join loop of a run with at least one worker the stored
\* fitness is 5, whatever the numbers of workers and of iterations.
C13_OneRoomScoresFive ==
    /\ incompatibilities = <<<<0, 1>>>>
    /\ \A a \in Candidates : evaluateSolution(a, rooms, incompatibilities) = 5
    /\ \A w \in Workers : (pc[w] = "lock" \/ InCriticalSection(w)) => fitness[w] = 5
    /\ (AllJoined /\ threadCount >= 1) => globalBestFitness = 5

\* two workers of two iterations each have finished and main has reported
C13_Witness ==
    /\ mainPc = "done"
    /\ threadCount = 2
    /\ iterationsPerThread = 2
    /\ globalBestAssignment = <<0, 0, 0>>
    /\ globalBestFitness = 5

\* ---------------------------------------------------------------------
\* The run on two rooms of capacity 1, three students, no incompatibility,
\* with generators that yield every assignment once
\* ---------------------------------------------------------------------

RECURSIVE Power(_, _)
Power(b, e) == IF e = 0 THEN 1 ELSE b * Power(b, e - 1)

\* the k-th assignment in lexicographic order, k counted from 0
enumerated(k) ==
    [j \in 1..numStudents |-> (k \div Power(Len(rooms), numStudents - j)) % Len(rooms)]

\* the streams that go through all assignments in lexicographic order, from
\* any starting point
ExhaustiveStreams ==
    {[n \in 1..iterationsPerThread |->
         enumerated((n - 1 + r) % Power(Len(rooms), numStudents))] :
       r \in 0..(Power(Len(rooms), numStudents) - 1)}

InitTwoRooms ==
    /\ threadCount \in (-1)..MaxThreads
    /\ rooms = uniformRooms(2, 1)
    /\ numStudents = 3
    /\ incompatibilities = <<>>
    /\ iterationsPerThread = 8
    /\ mainPc = "spawn"
    /\ t = 0
    /\ pc = [w \in Workers |-> "unspawned"]
    /\ rng = [w \in Workers |-> <<>>]
    /\ i = [w \in Workers |-> 0]
    /\ currentAssignment = [w \in Workers |-> <<>>]
    /\ fitness = [w \in Workers |-> 0]
    /\ observed = [w \in Workers |-> <<>>]
    /\ bestSolutionMutex = 0
    /\ globalBestFitness = INT_MAX
    /\ globalBestAssignment = <<>>
    /\ eAssignment = <<>>
    /\ eRooms = <<>>
    /\ eIncompatibilities = <<>>
    /\ ePenalty = 0
    /\ ePc = "off"

WorkerStartExhaustive(w) == WorkerStartFrom(w, ExhaustiveStreams)

WorkerExhaustive(w) ==
    \/ WorkerStartExhaustive(w)
    \/ Generate(w)
    \/ Evaluate(w)
    \/ Lock(w)
    \/ Compare(w)
    \/ WriteFitness(w)
    \/ WriteAssignment(w)
    \/ Unlock(w)

NextTwoRooms ==
    \/ Spawn
    \/ Join
    \/ Report
    \/ \E w \in Workers : WorkerExhaustive(w)

SpecTwoRooms == InitTwoRooms /\ [][NextTwoRooms]_vars

\* C14: with two rooms of capacity 1, three students and no incompatibility,
\* there are 8 assignments, none scores below 10 and <<0,0,1>> scores 10; once
\* main is past the join loop of a run whose workers evaluated all 8, the stored
\* fitness is 10.
C14_TwoRoomsMinimumTen ==
    /\ Cardinality(Candidates) = 8
    /\ \A a \in Candidates : evaluateSolution(a, rooms, incompatibilities) >= 10
    /\ evaluateSolution(<<0, 0, 1>>, rooms, incompatibilities) = 10
    /\ (AllJoined /\ AllCandidates = Candidates) => globalBestFitness = 10

\* two workers that started their enumerations at different points have gone
\* through all 8 assignments and main has reported
C14_Witness ==
    /\ mainPc = "done"
    /\ threadCount = 2
    /\ rng[1] # rng[2]
    /\ AllCandidates = Candidates
    /\ globalBestFitness = 10

\* ---------------------------------------------------------------------
\* evaluateSolution called on its own, on arbitrary small arguments
\* ---------------------------------------------------------------------

\* sequences over S of length at most n
SeqUpTo(S, n) == UNION {[1..k -> S] : k \in 0..n}

InitEval ==
    /\ threadCount = 0
    /\ rooms = <<>>
    /\ numStudents = 0
    /\ incompatibilities = <<>>
    /\ iterationsPerThread = 0
    /\ mainPc = "off"
    /\ t = 0
    /\ pc = [w \in Workers |-> "unspawned"]
    /\ rng = [w \in Workers |-> <<>>]
    /\ i = [w \in Workers |-> 0]
    /\ currentAssignment = [w \in Workers |-> <<>>]
    /\ fitness = [w \in Workers |-> 0]
    /\ observed = [w \in Workers |-> <<>>]
    /\ bestSolutionMutex = 0
    /\ globalBestFitness = INT_MAX
    /\ globalBestAssignment = <<>>
    /\ eRooms \in SeqUpTo(0..MaxCapacity, MaxRooms)
    /\ \E n \in 0..MaxStudents :
          /\ eAssignment \in [1..n -> (-1)..Len(eRooms)]
          /\ eIncompatibilities \in SeqUpTo((0..(n - 1)) \X (0..(n - 1)), MaxInc)
    /\ ePenalty = 0
    /\ ePc = "call"

EvalCall ==
    /\ ePc = "call"
    /\ ePenalty' = evaluateSolution(eAssignment, eRooms, eIncompatibilities)
    /\ ePc' = "returned"
    /\ UNCHANGED <<cfgVars, mainVars, workerVars, registerVars,
                   eAssignment, eRooms, eIncompatibilities>>

NextEval == EvalCall

SpecEval == InitEval /\ [][NextEval]_vars

\* ---------------------------------------------------------------------
\* Properties of evaluateSolution
\* ---------------------------------------------------------------------

\* every entry of the assignment is a room index
ValidAssignment ==
    \A j \in 1..Len(eAssignment) : eAssignment[j] \in 0..(Len(eRooms) - 1)

\* the students the assignment puts in room r
Occupants(r) == {s \in 0..(Len(eAssignment) - 1) : eAssignment[s + 1] = r}

NoRoomOverfull ==
    \A r \in 0..(Len(eRooms) - 1) : Cardinality(Occupants(r)) <= eRooms[r + 1]

\* the entries of the incompatibility list whose two students share a room
SharingEntries ==
    {k \in 1..Len(eIncompatibilities) :
        eAssignment[eIncompatibilities[k][1] + 1] = eAssignment[eIncompatibilities[k][2] + 1]}

RECURSIVE SumOver(_, _)
SumOver(f, S) ==
    IF S = {} THEN 0
    ELSE LET x == CHOOSE y \in S : TRUE IN f[x] + SumOver(f, S \ {x})

\* C9: on an assignment of room indices only, evaluateSolution returns a value
\* that is not negative, and that is 0 exactly when no room holds more students
\* than its capacity and no entry of the incompatibility list has its two
\* students in one room.
C9_ZeroIffNoViolation ==
    (ePc = "returned" /\ ValidAssignment)
        => /\ ePenalty >= 0
           /\ ePenalty = 0 <=> (NoRoomOverfull /\ SharingEntries = {})

\* two students, apart, in two rooms of capacity 1, under two incompatibility
\* entries: nothing is violated
C9_Witness ==
    /\ ePc = "returned"
    /\ ValidAssignment
    /\ eRooms = <<1, 1>>
    /\ Len(eAssignment) = 2
    /\ Len(eIncompatibilities) = 2
    /\ ePenalty = 0

\* C10: evaluateSolution returns the sum over the rooms of 10 for every student
\* above the room's capacity, plus 5 for every entry of the incompatibility list
\* whose two students have the same room, repeated entries counted each time.
C10_PenaltyFormula ==
    ePc = "returned"
        => ePenalty =
              SumOver([r \in 0..(Len(eRooms) - 1) |->
                          IF Cardinality(Occupants(r)) > eRooms[r + 1]
                             THEN 10 * (Cardinality(Occupants(r)) - eRooms[r + 1])
                             ELSE 0],
                      0..(Len(eRooms) - 1))
              + 5 * Cardinality(SharingEntries)

\* a room two students over its capacity and the same incompatible pair listed
\* twice: 20 for the room and 5 for each entry
C10_Witness ==
    /\ ePc = "returned"
    /\ eRooms = <<0>>
    /\ eAssignment = <<0, 0>>
    /\ eIncompatibilities = <<<<0, 1>>, <<0, 1>>>>
    /\ ePenalty = 30

\* ---------------------------------------------------------------------
\* evaluateSolution called on its own, with at most one incompatibility
\* ---------------------------------------------------------------------

InitEvalOnePair ==
    /\ threadCount = 0
    /\ rooms = <<>>
    /\ numStudents = 0
    /\ incompatibilities = <<>>
    /\ iterationsPerThread = 0
    /\ mainPc = "off"
    /\ t = 0
    /\ pc = [w \in Workers |-> "unspawned"]
    /\ rng = [w \in Workers |-> <<>>]
    /\ i = [w \in Workers |-> 0]
    /\ currentAssignment = [w \in Workers |-> <<>>]
    /\ fitness = [w \in Workers |-> 0]
    /\ observed = [w \in Workers |-> <<>>]
    /\ bestSolutionMutex = 0
    /\ globalBestFitness = INT_MAX
    /\ globalBestAssignment = <<>>
    /\ eRooms \in SeqUpTo(0..MaxCapacity, MaxRooms)
    /\ \E n \in 0..MaxStudents :
          /\ eAssignment \in [1..n -> (-1)..Len(eRooms)]
          /\ eIncompatibilities \in SeqUpTo((0..(n - 1)) \X (0..(n - 1)), 1)
    /\ ePenalty = 0
    /\ ePc = "call"

SpecEvalOnePair == InitEvalOnePair /\ [][NextEval]_vars

\* the assignment without the students whose entry is no room index
WithoutStrays == SelectSeq(eAssignment, LAMBDA x : x \in 0..(Len(eRooms) - 1))

\* the number of entries of a that are r
CountOf(a, r) == Cardinality({j \in 1..Len(a) : a[j] = r})

\* 10 for every student of a above the capacity of its room
OverflowOf(a) ==
    SumOver([r \in 0..(Len(eRooms) - 1) |->
                IF CountOf(a, r) > eRooms[r + 1]
                   THEN 10 * (CountOf(a, r) - eRooms[r + 1])
                   ELSE 0],
            0..(Len(eRooms) - 1))

\* C16: evaluateSolution returns on assignments with entries below 0 or at
\* least the number of rooms, and the part of its value that is not due to the
\* incompatibility entries is the overflow penalty of the assignment with the
\* students of those entries removed.
C16_StraysNotCounted ==
    ePc = "returned"
        => ePenalty - 5 * Cardinality(SharingEntries) = OverflowOf(WithoutStrays)

\* an assignment with an entry outside the range and an overfull room
C16_Witness ==
    /\ ePc = "returned"
    /\ Len(WithoutStrays) = 1
    /\ Len(eAssignment) = 2
    /\ OverflowOf(WithoutStrays) = 10
    /\ ePenalty = 10

\* the permutations of the room indices
RoomPermutations ==
    {p \in [0..(Len(eRooms) - 1) -> 0..(Len(eRooms) - 1)] :
        \A a, b \in 0..(Len(eRooms) - 1) : p[a] = p[b] => a = b}

\* the assignment with every room r renamed p[r]
Relabelled(p) == [j \in 1..Len(eAssignment) |-> p[eAssignment[j]]]

\* the capacities after the renaming: room p[r] has the capacity of room r
RelabelledRooms(p) ==
    [q \in 1..Len(eRooms) |->
        eRooms[(CHOOSE r \in 0..(Len(eRooms) - 1) : p[r] = q - 1) + 1]]

\* C17: for every permutation of the room indices, evaluateSolution of the
\* relabelled assignment with the capacities relabelled alike is the value of
\* the original assignment with the original capacities.
C17_RelabellingInvariance ==
    (ePc = "returned" /\ ValidAssignment)
        => \A p \in RoomPermutations :
              evaluateSolution(Relabelled(p), RelabelledRooms(p), eIncompatibilities)
                 = ePenalty

\* rooms of different capacities, where swapping the rooms in the assignment
\* alone changes the value and swapping the capacities too restores it
C17_Witness ==
    /\ ePc = "returned"
    /\ ValidAssignment
    /\ Len(eRooms) = 2
    /\ eRooms[1] # eRooms[2]
    /\ Len(eIncompatibilities) = 1
    /\ \E p \in RoomPermutations :
          /\ evaluateSolution(Relabelled(p), eRooms, eIncompatibilities) # ePenalty
          /\ evaluateSolution(Relabelled(p), RelabelledRooms(p), eIncompatibilities)
                = ePenalty

====
